---- MODULE Spec2Model ----
(***************************************************************************)
(* The command terminal of the portfolio page (src/unnamed/part_000,       *)
(* lines 1-61): a text field whose Enter key normalises the typed line,    *)
(* echoes it into the transcript (#terminal-history) and appends the       *)
(* command table's answer, a "not found" line, or clears the transcript.   *)
(* Strings are TLA+ strings; TLC evaluates Len, \o, Head, Tail and SubSeq  *)
(* on them character by character.                                         *)
(***************************************************************************)
EXTENDS Integers, Sequences, FiniteSets

VARIABLES
    value,            \* terminalInput.value, the pending text of the field
    terminalHistory,  \* children of #terminal-history, in document order
    raised,           \* an uncaught exception left a terminal handler
    call,             \* history: the last Enter submission (or NoCall)
    script,           \* SpecSeq: the lines a session submits, in order
    pos,              \* SpecSeq: how many lines of script were submitted
    produced,         \* SpecSeq: the entries each submission appended
    table,            \* the object bound to the constant commands
    scrollTop,        \* terminalBody.scrollTop, in rows
    keyEvent,         \* history: the last keydown on the terminal field
    activeElement,    \* document.activeElement, by element id
    localStorage,     \* window.localStorage: the items that outlive the page
    dataTheme,        \* the data-theme attribute of the document element
    fieldValue,       \* the values of the contact form's name, email and message
    submitBtn,        \* the submit button: disabled, and its class loading
    formFieldsHidden, \* formFields.hidden
    formSuccessHidden,\* formSuccess.hidden
    submissions,      \* pending timers of simulateSubmission (1500 ms)
    mainTimers,       \* pending timers of main.js's submit listener (1500 ms)
    announcements,    \* screen-reader announcements awaiting removal (1000 ms)
    submitBtnClassed, \* the submit button matches '.submit-btn, .form-submit'
    fieldMark,        \* the validation marks of the form's fields
    messageCounter,   \* #message-counter: the length it shows, its class error
    navOpen,          \* document.body has the class nav-open
    ariaExpanded,     \* the aria-expanded attribute of the hamburger button
    linkTimers,       \* pending 100 ms timers of nav-link clicks, oldest first
    resizeTimer,      \* the pending debounce timer of the resize listener
    innerWidth,       \* window.innerWidth
    navEvent,         \* history: the last event the navigation handled
    certViewer,       \* certifications.js: #cert-modal, its image, zoom and timers
    certLast,         \* history: the source the viewer was last opened with
    certEvent,        \* history: the last event of the viewer and what it met
    overlayViewer,    \* main.js: .modal-overlay, its image and timers
    overlayLast,      \* history: the source the overlay was last opened with
    overlayEvent,     \* history: the last event of the overlay
    projects,         \* projects.js: the active filter buttons, the hidden cards
    filterEvent,      \* history: the filter button clicked last
    projModal,        \* projects.js: #project-modal and its timers
    projEvent         \* history: the last event of the project modal

\* the variables of the terminal
termVars == <<value, terminalHistory, raised, call, table, scrollTop, keyEvent>>

\* the variables of scripted sessions
seqVars == <<script, pos, produced>>

\* the variables of the theme toggle
themeVars == <<localStorage, dataTheme>>

\* the variables of the contact form
formVars == <<fieldValue, submitBtn, formFieldsHidden, formSuccessHidden,
              submissions, mainTimers, announcements, submitBtnClassed>>

\* the variables of the navigation menu
navVars == <<navOpen, ariaExpanded, linkTimers, resizeTimer, innerWidth, navEvent>>

\* the variables of the components outside the terminal's page section
\* the variables of the certificate viewer of certifications.js
certVars == <<certViewer, certLast, certEvent>>

\* the variables of the certificate overlay of main.js
overlayVars == <<overlayViewer, overlayLast, overlayEvent>>

\* the variables of the projects page
projVars == <<projects, filterEvent, projModal, projEvent>>

\* the variables of the viewers and of the projects page
modalVars == <<certVars, overlayVars, projVars>>

siteVars == <<navVars, modalVars>>

\* the validation marks of the contact form
markVars == <<fieldMark, messageCounter>>

vars == <<termVars, seqVars, activeElement, themeVars, formVars, markVars, siteVars>>

-----------------------------------------------------------------------------
(* Bounds *)

\* the longest transcript the model lets an Enter produce
MaxLines == 4

\* the longest session of SpecSeq
MaxScript == 4

\* the rows of the transcript the terminal body shows without scrolling
ClientRows == 2

\* the most timers of one kind the contact form has pending at a time
MaxPending == 2

\* the most announcements awaiting removal at a time
MaxAnnouncements == 1

\* the most nav-link timers pending at a time
MaxNavTimers == 2

\* the most timers of one kind a viewer or modal has pending at a time
MaxModalTimers == 1

-----------------------------------------------------------------------------
(* JavaScript values and strings *)

Null == [type |-> "null"]

Undefined == [type |-> "undefined"]

\* Object.prototype.constructor, inherited by the commands object literal
ObjectConstructor == [type |-> "function", name |-> "Object"]

\* Object.prototype, the value of the inherited accessor __proto__
ObjectPrototype == [type |-> "object"]

JSString(s) == [type |-> "string", str |-> s]

\* ToBooleanJS: undefined, null and the empty string are falsy
ToBooleanJS(v) ==
    CASE v.type = "undefined" -> FALSE
      [] v.type = "null"      -> FALSE
      [] v.type = "string"    -> v.str # ""
      [] OTHER                -> TRUE

\* ToStringJS, as the textContent setter applies it to its argument
ToStringJS(v) ==
    CASE v.type = "string"    -> v.str
      [] v.type = "function"  -> "function " \o v.name \o "() { [native code] }"
      [] v.type = "object"    -> "[object Object]"
      [] v.type = "undefined" -> "undefined"
      [] OTHER                -> "null"

UpperCaseLetters == "ABCDEFGHIJKLMNOPQRSTUVWXYZ"

LowerCaseLetters == "abcdefghijklmnopqrstuvwxyz"

\* the white space String.prototype.trim strips, as far as a text field holds it
WhiteSpace == {" ", "\t"}

CharAt(s, i) == SubSeq(s, i, i)

toLowerCaseChar(c) ==
    IF \E i \in 1..Len(UpperCaseLetters) : CharAt(UpperCaseLetters, i) = c
    THEN CharAt(LowerCaseLetters,
                CHOOSE i \in 1..Len(UpperCaseLetters) : CharAt(UpperCaseLetters, i) = c)
    ELSE c

\* a variant of toLowerCase that leaves the case as typed
toLowerCase_Identity(s) == s

RECURSIVE toLowerCase(_)
toLowerCase(s) ==
    IF s = "" THEN "" ELSE toLowerCaseChar(Head(s)) \o toLowerCase(Tail(s))

RECURSIVE trimStart(_)
trimStart(s) ==
    IF s # "" /\ Head(s) \in WhiteSpace THEN trimStart(Tail(s)) ELSE s

RECURSIVE trimEnd(_)
trimEnd(s) ==
    IF s # "" /\ CharAt(s, Len(s)) \in WhiteSpace
    THEN trimEnd(SubSeq(s, 1, Len(s) - 1))
    ELSE s

trim(s) == trimEnd(trimStart(s))

-----------------------------------------------------------------------------
(* The command table and the DOM of the terminal *)

\* a variant of the table whose help text leaves out a command
commands_HelpOmitsSocial ==
    [help     |-> "Available commands: help, clear, whoami, ls, projects, skills, contact",
     whoami   |-> "Aryan Yadav - CS Student, Web Developer, and Cybersecurity Enthusiast.",
     ls       |-> "about.txt  projects/  skills/  certifications/",
     projects |-> "Featured: Property Shodh, Virtual Office. Type \"ls projects\" for details.",
     skills   |-> "Languages: Python, JS, TS, Java, C++. Frontend: React, Next.js. Backend: Node.js, Express.",
     contact  |-> "Email: aryan.yadav.prof@gmail.com",
     social   |-> "GitHub: github.com/Aryan20051  |  LinkedIn: linkedin.com/in/aryan-yadav01"]

commands ==
    [help     |-> "Available commands: help, clear, whoami, ls, projects, skills, contact, social",
     whoami   |-> "Aryan Yadav - CS Student, Web Developer, and Cybersecurity Enthusiast.",
     ls       |-> "about.txt  projects/  skills/  certifications/",
     projects |-> "Featured: Property Shodh, Virtual Office. Type \"ls projects\" for details.",
     skills   |-> "Languages: Python, JS, TS, Java, C++. Frontend: React, Next.js. Backend: Node.js, Express.",
     contact  |-> "Email: aryan.yadav.prof@gmail.com",
     social   |-> "GitHub: github.com/Aryan20051  |  LinkedIn: linkedin.com/in/aryan-yadav01"]

\* a variant of the lookup that resolves the first word of the input
GetProperty_FirstWord(cmd) ==
    LET word == IF \E i \in 1..Len(cmd) : SubSeq(cmd, i, i) = " "
                THEN SubSeq(cmd, 1, (CHOOSE i \in 1..Len(cmd) :
                                        /\ SubSeq(cmd, i, i) = " "
                                        /\ \A j \in 1..(i - 1) : SubSeq(cmd, j, j) # " ") - 1)
                ELSE cmd
    IN  IF word \in DOMAIN table THEN JSString(table[word])
        ELSE IF word = "constructor" THEN ObjectConstructor
        ELSE IF word = "__proto__" THEN ObjectPrototype
        ELSE Undefined

\* commands[cmd]: an own property, else what the object inherits from
\* Object.prototype under that name, else undefined.  The handler lowercases
\* its input, so of the inherited names only the all-lowercase ones are listed.
GetProperty(cmd) ==
    IF cmd \in DOMAIN table THEN JSString(table[cmd])
    ELSE IF cmd = "constructor" THEN ObjectConstructor
    ELSE IF cmd = "__proto__" THEN ObjectPrototype
    ELSE Undefined

\* document.querySelector('.terminal-body') on the page that holds the terminal
terminalBody == [type |-> "element", className |-> "terminal-body"]

\* the echo line: a div whose markup is the prompt followed by the command
historyLine(cmd) ==
    [className |-> "terminal-history-line",
     innerHTML |-> "<span class=\"terminal-prompt\">aryan@dev</span><span class=\"terminal-text\">:~$</span> <span>"
                   \o cmd \o "</span>"]

\* the output line: a div whose text is set through textContent
outputLine(v) ==
    [className |-> "terminal-output", marginBottom |-> "12px", textContent |-> ToStringJS(v)]

notFound(cmd) ==
    "Command not found: " \o cmd \o ". Type 'help' for available commands."

\* variants of executeCommand, each with one slip
\* the command's name is written where its table value belongs
executeCommand_KeyAsOutput(hist, cmd) ==
    LET echoed == Append(hist, historyLine(cmd))
    IN  IF cmd = "" THEN [history |-> echoed, threw |-> FALSE, scrolled |-> FALSE]
        ELSE IF cmd = "clear" THEN [history |-> <<>>, threw |-> FALSE, scrolled |-> FALSE]
        ELSE LET output == IF ToBooleanJS(GetProperty(cmd))
                           THEN outputLine(JSString(cmd))
                           ELSE outputLine(JSString(notFound(cmd)))
             IN  [history |-> Append(echoed, output),
                  threw   |-> terminalBody = Null, scrolled |-> terminalBody # Null]

\* the transcript is emptied before the echo is appended
executeCommand_ClearBeforeEcho(hist, cmd) ==
    LET echoed == Append(IF cmd = "clear" THEN <<>> ELSE hist, historyLine(cmd))
    IN  IF cmd = "" THEN [history |-> echoed, threw |-> FALSE, scrolled |-> FALSE]
        ELSE IF cmd = "clear" THEN [history |-> echoed, threw |-> FALSE, scrolled |-> FALSE]
        ELSE LET output == IF ToBooleanJS(GetProperty(cmd))
                           THEN outputLine(GetProperty(cmd))
                           ELSE outputLine(JSString(notFound(cmd)))
             IN  [history |-> Append(echoed, output),
                  threw   |-> terminalBody = Null, scrolled |-> terminalBody # Null]

\* the early return on the empty command is missing
executeCommand_NoEmptyReturn(hist, cmd) ==
    LET echoed == Append(hist, historyLine(cmd))
    IN  IF cmd = "clear" THEN [history |-> <<>>, threw |-> FALSE, scrolled |-> FALSE]
        ELSE LET output == IF ToBooleanJS(GetProperty(cmd))
                           THEN outputLine(GetProperty(cmd))
                           ELSE outputLine(JSString(notFound(cmd)))
             IN  [history |-> Append(echoed, output),
                  threw   |-> terminalBody = Null, scrolled |-> terminalBody # Null]

\* the empty command returns before the echo is appended
executeCommand_EmptyReturnsFirst(hist, cmd) ==
    LET echoed == Append(hist, historyLine(cmd))
    IN  IF cmd = "" THEN [history |-> hist, threw |-> FALSE, scrolled |-> FALSE]
        ELSE IF cmd = "clear" THEN [history |-> <<>>, threw |-> FALSE, scrolled |-> FALSE]
        ELSE LET output == IF ToBooleanJS(GetProperty(cmd))
                           THEN outputLine(GetProperty(cmd))
                           ELSE outputLine(JSString(notFound(cmd)))
             IN  [history |-> Append(echoed, output),
                  threw   |-> terminalBody = Null, scrolled |-> terminalBody # Null]

\* the clear branch returns without emptying the transcript
executeCommand_NoClear(hist, cmd) ==
    LET echoed == Append(hist, historyLine(cmd))
    IN  IF cmd = "" THEN [history |-> echoed, threw |-> FALSE, scrolled |-> FALSE]
        ELSE IF cmd = "clear" THEN [history |-> echoed, threw |-> FALSE, scrolled |-> FALSE]
        ELSE LET output == IF ToBooleanJS(GetProperty(cmd))
                           THEN outputLine(GetProperty(cmd))
                           ELSE outputLine(JSString(notFound(cmd)))
             IN  [history |-> Append(echoed, output),
                  threw   |-> terminalBody = Null, scrolled |-> terminalBody # Null]

\* the echo line is created but never appended
executeCommand_NoEcho(hist, cmd) ==
    LET echoed == hist
    IN  IF cmd = "" THEN [history |-> echoed, threw |-> FALSE, scrolled |-> FALSE]
        ELSE IF cmd = "clear" THEN [history |-> <<>>, threw |-> FALSE, scrolled |-> FALSE]
        ELSE LET output == IF ToBooleanJS(GetProperty(cmd))
                           THEN outputLine(GetProperty(cmd))
                           ELSE outputLine(JSString(notFound(cmd)))
             IN  [history |-> Append(echoed, output),
                  threw   |-> terminalBody = Null, scrolled |-> terminalBody # Null]

\* the output replaces the transcript instead of being appended to it
executeCommand_ReplaceWithOutput(hist, cmd) ==
    LET echoed == Append(hist, historyLine(cmd))
    IN  IF cmd = "" THEN [history |-> echoed, threw |-> FALSE, scrolled |-> FALSE]
        ELSE IF cmd = "clear" THEN [history |-> <<>>, threw |-> FALSE, scrolled |-> FALSE]
        ELSE LET output == IF ToBooleanJS(GetProperty(cmd))
                           THEN outputLine(GetProperty(cmd))
                           ELSE outputLine(JSString(notFound(cmd)))
             IN  [history |-> <<historyLine(cmd), output>>,
                  threw   |-> terminalBody = Null, scrolled |-> terminalBody # Null]

\* an unknown command throws instead of printing the not-found line
executeCommand_ThrowOnMiss(hist, cmd) ==
    LET echoed == Append(hist, historyLine(cmd))
    IN  IF cmd = "" THEN [history |-> echoed, threw |-> FALSE, scrolled |-> FALSE]
        ELSE IF cmd = "clear" THEN [history |-> <<>>, threw |-> FALSE, scrolled |-> FALSE]
        ELSE IF ~ToBooleanJS(GetProperty(cmd)) THEN [history |-> echoed, threw |-> TRUE, scrolled |-> FALSE]
        ELSE [history |-> Append(echoed, outputLine(GetProperty(cmd))),
              threw   |-> terminalBody = Null, scrolled |-> terminalBody # Null]

\* an answer already at the end of the transcript is not printed again
executeCommand_SkipRepeatedOutput(hist, cmd) ==
    LET echoed == Append(hist, historyLine(cmd))
    IN  IF cmd = "" THEN [history |-> echoed, threw |-> FALSE, scrolled |-> FALSE]
        ELSE IF cmd = "clear" THEN [history |-> <<>>, threw |-> FALSE, scrolled |-> FALSE]
        ELSE LET output == IF ToBooleanJS(GetProperty(cmd))
                           THEN outputLine(GetProperty(cmd))
                           ELSE outputLine(JSString(notFound(cmd)))
             IN  [history |-> IF hist # <<>> /\ hist[Len(hist)] = output
                              THEN echoed ELSE Append(echoed, output),
                  threw   |-> terminalBody = Null, scrolled |-> terminalBody # Null]

\* executeCommand(cmd) on a transcript hist: the transcript it leaves,
\* whether it threw (a property write on a null terminalBody is a TypeError)
\* and whether it reached the scroll to the bottom of line 59
executeCommand(hist, cmd) ==
    LET echoed == Append(hist, historyLine(cmd))
    IN  IF cmd = "" THEN [history |-> echoed, threw |-> FALSE, scrolled |-> FALSE]
        ELSE IF cmd = "clear" THEN [history |-> <<>>, threw |-> FALSE, scrolled |-> FALSE]
        ELSE LET output == IF ToBooleanJS(GetProperty(cmd))
                           THEN outputLine(GetProperty(cmd))
                           ELSE outputLine(JSString(notFound(cmd)))
             IN  [history |-> Append(echoed, output),
                  threw   |-> terminalBody = Null, scrolled |-> terminalBody # Null]

-----------------------------------------------------------------------------
(* Inputs *)

\* what a visitor types into the field before pressing Enter
RawInputs ==
    {"help", "whoami", "ls", "projects", "skills", "contact", "social",
     "clear", "", "   ", "\t", "foo", "constructor", "__proto__",
     "WHOAMI", "  whoami  ", " Clear", "ls projects", "clear all",
     "<b>x", "a&amp;b", "1<2"}

\* the lines the sessions of SpecSeq are made of
ScriptInputs == {"help", "ls", "clear", "whoami", ""}

RECURSIVE SeqsUpTo(_, _)
SeqsUpTo(S, n) ==
    IF n = 0 THEN {<<>>}
    ELSE LET shorter == SeqsUpTo(S, n - 1)
         IN  shorter \cup {Append(q, x) : q \in shorter, x \in S}

NoKey == [key |-> "", executions |-> 0, valueAfter |-> "", valueKept |-> TRUE, historyKept |-> TRUE]

\* the keys other than Enter a visitor presses in the terminal field
OtherKeys == {"a", "Escape"}

\* what the page of SpecTheme has typed into the terminal field
PageInputs == {"ls", "", "clear"}

Max(a, b) == IF a >= b THEN a ELSE b

Min(a, b) == IF a <= b THEN a ELSE b

\* terminalBody.scrollHeight - terminalBody.clientHeight with one row per
\* entry: the largest scrollTop, the one that shows the end of the transcript
ScrollBottom(hist) == Max(0, Len(hist) - ClientRows)

\* localStorage.getItem(k)
getItem(k) == IF k \in DOMAIN localStorage THEN JSString(localStorage[k]) ELSE Null

NoCall == [raw |-> "", cmd |-> "", before |-> <<>>, returned |-> FALSE, made |-> FALSE]

-----------------------------------------------------------------------------
(* The state machine *)

(* The validation of the contact form's fields (src/unnamed/part_000,      *)
(* lines 81-222; isValid of initContactForm in src/js/main.js)             *)

MAX_MESSAGE_LENGTH == 1000

Fields == {"name", "email", "message"}

\* the id of the element of a field
FieldId(f) == "contact-" \o f

\* what the visitor types into the terminal on the page with the form
FormPageInputs == {"ls"}

\* what the visitor types into the fields on the page followed together with
\* the terminal: a valid value each
FieldInputs ==
    [name |-> {"Ann"}, email |-> {"ann@x.io"}, message |-> {"hello there"}]

\* n copies of the string s
RECURSIVE Repeat(_, _)
Repeat(s, n) ==
    IF n = 0 THEN ""
    ELSE LET half == Repeat(s, n \div 2)
         IN  half \o half \o (IF n % 2 = 1 THEN s ELSE "")

\* a message of MAX_MESSAGE_LENGTH + 1 characters
LongMessage == Repeat("a", MAX_MESSAGE_LENGTH + 1)

\* what the visitor types into the fields of the form when the form is
\* followed alone: empty, valid, a malformed address, a message that is too
\* short and one that is too long
FormInputs ==
    [name |-> {"", "Ann"}, email |-> {"", "ann@x.io", "ann"},
     message |-> {"", "hi", "hello there", LongMessage}]

\* no character of s is white space or "@"
NoSpaceNoAt(s) == \A i \in 1..Len(s) : CharAt(s, i) \notin WhiteSpace \cup {"@"}

\* EMAIL_REGEX.test(s), for /^[^\s@]+@[^\s@]+\.[^\s@]+$/
EMAIL_REGEX_test(s) ==
    \E a \in 2..(Len(s) - 3) :
        /\ CharAt(s, a) = "@"
        /\ NoSpaceNoAt(SubSeq(s, 1, a - 1))
        /\ NoSpaceNoAt(SubSeq(s, a + 1, Len(s)))
        /\ \E d \in (a + 2)..(Len(s) - 1) : CharAt(s, d) = "."

\* the value validateField returns for the field f holding v; the three
\* fields carry the required attribute
validateField(f, v) ==
    LET val == trim(v)
    IN  IF val = "" THEN FALSE
        ELSE IF f = "email" /\ ~EMAIL_REGEX_test(val) THEN FALSE
        ELSE IF f = "message" /\ Len(val) > MAX_MESSAGE_LENGTH THEN FALSE
        ELSE IF f = "message" /\ Len(val) < 10 THEN FALSE
        ELSE TRUE

validateForm(vals) == \A f \in Fields : validateField(f, vals[f])

\* the first field, in document order, that validateForm marked as in error
FirstError(vals) ==
    IF ~validateField("name", vals["name"]) THEN "name"
    ELSE IF ~validateField("email", vals["email"]) THEN "email"
    ELSE "message"

\* isValid of main.js's submit listener: no length rule, the address is
\* tested untrimmed
mainIsValid(vals) ==
    /\ trim(vals["name"]) # ""
    /\ trim(vals["email"]) # ""
    /\ EMAIL_REGEX_test(vals["email"])
    /\ trim(vals["message"]) # ""

\* setLoadingState(isLoading) on the button b
setLoadingState(b, isLoading) == [disabled |-> isLoading, loading |-> isLoading]

\* the touched flag, the classes error and valid, aria-invalid (absent: "")
\* and the error element of a field; focusListener: the once-listener of the
\* focus event is still attached
NoMark ==
    [error |-> FALSE, valid |-> FALSE, ariaInvalid |-> "", touched |-> FALSE,
     errorText |-> "", errorVisible |-> FALSE, focusListener |-> TRUE]

\* getLabelText, for labels that read Name, Email and Message
getLabelText(f) ==
    CASE f = "name" -> "Name" [] f = "email" -> "Email" [] OTHER -> "Message"

\* errorMessage of validateField for the field f holding v
errorMessage(f, v) ==
    LET val == trim(v)
    IN  IF val = "" THEN getLabelText(f) \o " is required"
        ELSE IF f = "email" /\ ~EMAIL_REGEX_test(val)
             THEN "Please enter a valid email address"
        ELSE IF f = "message" /\ Len(val) > MAX_MESSAGE_LENGTH
             THEN "Message cannot exceed 1000 characters"
        ELSE IF f = "message" /\ Len(val) < 10
             THEN "Please provide a bit more detail (at least 10 characters)"
        ELSE ""

\* a variant of the marking that leaves aria-invalid of an invalid field alone
validateFieldMark_NoAria(m, f, v) ==
    IF validateField(f, v)
    THEN [m EXCEPT !.touched = TRUE, !.error = FALSE, !.valid = TRUE,
                   !.ariaInvalid = "false", !.errorText = "", !.errorVisible = FALSE]
    ELSE [m EXCEPT !.touched = TRUE, !.error = TRUE, !.valid = FALSE,
                   !.errorText = errorMessage(f, v), !.errorVisible = TRUE]

\* what validateField writes on the field f holding v, whose marks are m
validateFieldMark(m, f, v) ==
    IF validateField(f, v)
    THEN [m EXCEPT !.touched = TRUE, !.error = FALSE, !.valid = TRUE,
                   !.ariaInvalid = "false", !.errorText = "", !.errorVisible = FALSE]
    ELSE [m EXCEPT !.touched = TRUE, !.error = TRUE, !.valid = FALSE,
                   !.ariaInvalid = "true", !.errorText = errorMessage(f, v),
                   !.errorVisible = TRUE]

\* the marks validateForm leaves: the three fields validated
validateFormMarks(marks, vals) ==
    [f \in Fields |-> validateFieldMark(marks[f], f, vals[f])]

\* the field whose element has the id, or "" for any other element
FieldOf(id) == IF \E f \in Fields : FieldId(f) = id
               THEN CHOOSE f \in Fields : FieldId(f) = id ELSE ""

\* the blur listener of the field f: a touched field is validated
blurListener(marks, f, vals) ==
    IF marks[f].touched
    THEN [marks EXCEPT ![f] = validateFieldMark(marks[f], f, vals[f])]
    ELSE marks

\* the focus listener of the field f, which runs once
focusListener(marks, f) ==
    IF marks[f].focusListener
    THEN [marks EXCEPT ![f] = [@ EXCEPT !.touched = TRUE, !.focusListener = FALSE]]
    ELSE marks

\* the marks after the focus went from one element to another: the blur
\* listener of the field left, then the focus listener of the field entered
MoveFocus(marks, from, to, vals) ==
    IF from = to THEN marks
    ELSE LET left == IF FieldOf(from) # "" THEN blurListener(marks, FieldOf(from), vals)
                     ELSE marks
         IN  IF FieldOf(to) # "" THEN focusListener(left, FieldOf(to)) ELSE left

\* the two input listeners of the field f, whose value is now v: the counter
\* of the message first, then the validation of a field in error
inputListeners(marks, counter, f, v) ==
    LET over     == Len(v) > MAX_MESSAGE_LENGTH
        counted  == IF f = "message"
                    THEN [marks EXCEPT ![f] = [@ EXCEPT !.error =
                              IF over THEN TRUE
                              ELSE IF ~marks[f].touched THEN FALSE ELSE @]]
                    ELSE marks
        counter2 == IF f = "message" THEN [length |-> Len(v), error |-> over] ELSE counter
        marks2   == IF counted[f].error
                    THEN [counted EXCEPT ![f] = validateFieldMark(counted[f], f, v)]
                    ELSE counted
    IN  [marks |-> marks2, counter |-> counter2]

\* the focus goes to the element x: the blur and focus listeners of the
\* form's fields run
FocusTo(x) ==
    /\ activeElement' = x
    /\ fieldMark' = MoveFocus(fieldMark, activeElement, x, fieldValue)
    /\ UNCHANGED messageCounter

\* the navigation after init: the menu closed, no timer pending
NoNavEvent == [kind |-> "", stale |-> FALSE, wasOpen |-> FALSE]

\* the window widths the visitor resizes between, either side of 768
Widths == {600, 800}

InitNav ==
    /\ navOpen = FALSE
    /\ ariaExpanded = "false"
    /\ linkTimers = <<>>
    /\ resizeTimer = [pending |-> FALSE, stale |-> FALSE]
    /\ innerWidth = 600
    /\ navEvent = NoNavEvent

\* no event yet on a viewer or modal
NoModalEvent == [kind |-> "", wasActive |-> FALSE]

\* the viewer of certifications.js as its markup leaves it: closed, the
\* zoom button showing the plus icon, isZoomed false
InitCert ==
    /\ certViewer = [active |-> FALSE, ariaHidden |-> "true", overflow |-> "",
                     zoomed |-> FALSE, isZoomed |-> FALSE, zoomIcon |-> "plus",
                     src |-> "", opacity |-> "0", loading |-> FALSE,
                     loaderHidden |-> FALSE, closeTimers |-> 0, focusTimers |-> 0]
    /\ certLast = ""
    /\ certEvent = NoModalEvent

\* the overlay of main.js as its markup leaves it
InitOverlay ==
    /\ overlayViewer = [active |-> FALSE, overflow |-> "", src |-> "", closeTimers |-> 0]
    /\ overlayLast = ""
    /\ overlayEvent = NoModalEvent

\* the projects page as its markup leaves it: the filter 'all' active, every
\* card shown, the modal closed and empty
InitProjects ==
    /\ projects = [activeBtns |-> {"all"}, hiddenCards |-> {}]
    /\ filterEvent = ""
    /\ projModal = [active |-> FALSE, ariaHidden |-> "true", overflow |-> "",
                    shown |-> "", focusTimers |-> 0]
    /\ projEvent = NoModalEvent

InitSite ==
    /\ InitNav
    /\ InitCert
    /\ InitOverlay
    /\ InitProjects

\* the contact form as its markup and the first run of the scripts leave it
InitForm ==
    /\ fieldValue = [name |-> "", email |-> "", message |-> ""]
    /\ submitBtn = [disabled |-> FALSE, loading |-> FALSE]
    /\ formFieldsHidden = FALSE
    /\ formSuccessHidden = TRUE
    /\ submissions = 0
    /\ mainTimers = 0
    /\ announcements = 0
    /\ fieldMark = [f \in Fields |-> NoMark]
    /\ messageCounter = [length |-> 0, error |-> FALSE]

Init ==
    /\ value = ""
    /\ terminalHistory = <<>>
    /\ raised = FALSE
    /\ call = NoCall
    /\ script = <<>>
    /\ pos = 0
    /\ InitForm
    /\ InitSite
    /\ submitBtnClassed = FALSE
    /\ produced = <<>>
    /\ table = commands
    /\ scrollTop = 0
    /\ keyEvent = NoKey
    /\ activeElement = "body"
    /\ localStorage = <<>>
    /\ dataTheme = "dark"

\* the visitor edits the focused field (no terminal handler runs)
Type(r) ==
    /\ value' = r
    /\ value # r
    /\ FocusTo("terminal-input")
    /\ UNCHANGED <<terminalHistory, raised, call, table, scrollTop, keyEvent>>
    /\ UNCHANGED <<seqVars, siteVars, themeVars, formVars>>

\* what a keydown on the terminal field did, noted when its listener is done
KeyRecord(key, n) ==
    [key |-> key, executions |-> n, valueAfter |-> value',
     valueKept |-> (value' = value),
     historyKept |-> (terminalHistory' = terminalHistory)]

\* the keydown listener's call of executeCommand while the field holds v
Submitted(v) == executeCommand(terminalHistory, trim(toLowerCase(v)))

\* a variant of the listener that stores the not-found text of a miss in
\* the command table
EnterWith_RemembersMiss(v) ==
    LET input == trim(toLowerCase(v))
        r     == Submitted(v)
    IN  /\ terminalHistory' = r.history
        /\ table' = IF input \in DOMAIN table \cup {"", "clear"} THEN table
                     ELSE [k \in DOMAIN table \cup {input} |->
                              IF k = input THEN notFound(input) ELSE table[k]]
        /\ raised' = (raised \/ r.threw)
        /\ value' = IF r.threw THEN v ELSE ""
        /\ scrollTop' = IF r.scrolled THEN ScrollBottom(r.history)
                         ELSE Min(scrollTop, ScrollBottom(r.history))
        /\ FocusTo("terminal-input")
        /\ call' = [raw |-> v, cmd |-> input, before |-> terminalHistory,
                    returned |-> ~r.threw, made |-> TRUE]

\* the keydown listener on an Enter key while the field holds v: line 22
\* (the field is emptied) runs only if executeCommand returned; no statement
\* of the listener or of executeCommand assigns to a property of commands
EnterWith(v) ==
    LET input == trim(toLowerCase(v))
        r     == Submitted(v)
    IN  /\ terminalHistory' = r.history
        /\ table' = table
        /\ raised' = (raised \/ r.threw)
        /\ value' = IF r.threw THEN v ELSE ""
        /\ scrollTop' = IF r.scrolled THEN ScrollBottom(r.history)
                         ELSE Min(scrollTop, ScrollBottom(r.history))
        /\ FocusTo("terminal-input")
        /\ call' = [raw |-> v, cmd |-> input, before |-> terminalHistory,
                    returned |-> ~r.threw, made |-> TRUE]

KeydownEnter ==
    /\ Len(Submitted(value).history) <= MaxLines
    /\ EnterWith(value)
    /\ keyEvent' = KeyRecord("Enter", 1)
    /\ UNCHANGED <<seqVars, siteVars, themeVars, formVars>>

Next ==
    \/ \E r \in RawInputs : Type(r)
    \/ KeydownEnter

Spec == Init /\ [][Next]_vars

-----------------------------------------------------------------------------
(* The other handlers of the page *)

\* a variant of the keydown listener without the test of the key
KeydownOther_Executes(k) ==
    /\ k # "Enter"
    /\ Len(Submitted(value).history) <= MaxLines
    /\ EnterWith(value)
    /\ keyEvent' = KeyRecord(k, 1)
    /\ UNCHANGED <<seqVars, siteVars, themeVars, formVars>>

\* the keydown listener on a key other than Enter: the test of line 19 fails
\* and the listener returns
KeydownOther(k) ==
    /\ k # "Enter"
    /\ FocusTo("terminal-input")
    /\ UNCHANGED <<value, terminalHistory, raised, call, table, scrollTop>>
    /\ keyEvent' = KeyRecord(k, 0)
    /\ UNCHANGED <<seqVars, siteVars, themeVars, formVars>>

\* a variant of the click listener of the terminal body that also prints a
\* prompt line
TerminalBodyClick_AppendsPrompt ==
    /\ Len(terminalHistory) < MaxLines
    /\ terminalHistory' = Append(terminalHistory, historyLine(""))
    /\ FocusTo("terminal-input")
    /\ UNCHANGED <<value, raised, call, table, scrollTop, keyEvent>>
    /\ UNCHANGED <<seqVars, siteVars, themeVars, formVars>>

\* the click listener of the terminal body: the field gets the focus
TerminalBodyClick ==
    /\ FocusTo("terminal-input")
    /\ UNCHANGED <<termVars, seqVars, siteVars, themeVars, formVars>>

\* the visitor scrolls the terminal body to row t
UserScroll(t) ==
    /\ t \in 0..ScrollBottom(terminalHistory)
    /\ t # scrollTop
    /\ scrollTop' = t
    /\ UNCHANGED <<value, terminalHistory, raised, call, table, keyEvent>>
    /\ UNCHANGED <<seqVars, siteVars, activeElement, markVars, themeVars, formVars>>

\* localStorage.getItem('theme') || 'dark'
StoredTheme ==
    ToStringJS(IF ToBooleanJS(getItem("theme")) THEN getItem("theme") ELSE JSString("dark"))

\* a variant of the toggle that stores the theme it replaced
ThemeToggleClick_StoresOldTheme ==
    LET newTheme == IF dataTheme = "dark" THEN "light" ELSE "dark"
    IN  /\ dataTheme' = newTheme
        /\ localStorage' = [k \in DOMAIN localStorage \cup {"theme"} |->
                                IF k = "theme" THEN dataTheme ELSE localStorage[k]]
        /\ FocusTo("theme-toggle")
        /\ UNCHANGED <<termVars, seqVars, siteVars, formVars>>

\* the click listener of the theme toggle: the other theme is shown and
\* stored under the key theme
ThemeToggleClick ==
    LET newTheme == IF dataTheme = "dark" THEN "light" ELSE "dark"
    IN  /\ dataTheme' = newTheme
        /\ localStorage' = [k \in DOMAIN localStorage \cup {"theme"} |->
                                IF k = "theme" THEN newTheme ELSE localStorage[k]]
        /\ FocusTo("theme-toggle")
        /\ UNCHANGED <<termVars, seqVars, siteVars, formVars>>

\* the page is loaded again: every script starts over, the terminal as in
\* Init and the theme from the stored item; localStorage is what outlives it
Reload ==
    /\ value' = ""
    /\ terminalHistory' = <<>>
    /\ raised' = FALSE
    /\ call' = NoCall
    /\ table' = commands
    /\ scrollTop' = 0
    /\ keyEvent' = NoKey
    /\ activeElement' = "body"
    /\ dataTheme' = StoredTheme
    /\ fieldValue' = [name |-> "", email |-> "", message |-> ""]
    /\ submitBtn' = [disabled |-> FALSE, loading |-> FALSE]
    /\ formFieldsHidden' = FALSE
    /\ formSuccessHidden' = TRUE
    /\ submissions' = 0
    /\ mainTimers' = 0
    /\ announcements' = 0
    /\ fieldMark' = [f \in Fields |-> NoMark]
    /\ messageCounter' = [length |-> 0, error |-> FALSE]
    /\ UNCHANGED <<localStorage, seqVars, siteVars, submitBtnClassed>>

NextTheme ==
    \/ \E r \in PageInputs : Type(r)
    \/ KeydownEnter
    \/ \E k \in OtherKeys : KeydownOther(k)
    \/ TerminalBodyClick
    \/ \E t \in 0..MaxLines : UserScroll(t)
    \/ ThemeToggleClick
    \/ Reload

SpecTheme == Init /\ [][NextTheme]_vars

-----------------------------------------------------------------------------
(* The contact form (src/unnamed/part_000, lines 66-408, and initContactForm *)
(* of src/js/main.js): its listeners and timers.                            *)

\* a variant of the listeners that settles a valid submission at once
SubmitListeners_Synchronous ==
    LET valid == validateForm(fieldValue)
    IN  /\ ~valid => announcements < MaxAnnouncements
        /\ valid => announcements < MaxAnnouncements
        /\ announcements' = announcements + 1
        /\ formFieldsHidden' = (valid \/ formFieldsHidden)
        /\ formSuccessHidden' = (~valid /\ formSuccessHidden)
        /\ UNCHANGED <<fieldValue, submitBtn, submissions, mainTimers, submitBtnClassed>>

\* the submit listeners of part_000 and of main.js on one submit event
SubmitListeners ==
    LET valid    == validateForm(fieldValue)
        mainRuns == mainIsValid(fieldValue) /\ submitBtnClassed
    IN  /\ valid => submissions < MaxPending
        /\ ~valid => announcements < MaxAnnouncements
        /\ mainRuns => mainTimers < MaxPending
        /\ submissions' = IF valid THEN submissions + 1 ELSE submissions
        /\ announcements' = IF valid THEN announcements ELSE announcements + 1
        /\ mainTimers' = IF mainRuns THEN mainTimers + 1 ELSE mainTimers
        /\ submitBtn' = IF valid THEN setLoadingState(submitBtn, TRUE)
                        ELSE IF mainRuns THEN [submitBtn EXCEPT !.disabled = TRUE]
                        ELSE submitBtn
        /\ UNCHANGED <<fieldValue, formFieldsHidden, formSuccessHidden, submitBtnClassed>>

\* the visitor puts the focus into the field f and edits it to v: the input
\* listeners run
FormInput(f, v) ==
    LET focused == MoveFocus(fieldMark, activeElement, FieldId(f), fieldValue)
        heard   == inputListeners(focused, messageCounter, f, v)
    IN  /\ ~formFieldsHidden
        /\ v # fieldValue[f]
        /\ fieldValue' = [fieldValue EXCEPT ![f] = v]
        /\ activeElement' = FieldId(f)
        /\ fieldMark' = heard.marks
        /\ messageCounter' = heard.counter
        /\ UNCHANGED <<submitBtn, formFieldsHidden, formSuccessHidden,
                       submissions, mainTimers, announcements, submitBtnClassed>>
        /\ UNCHANGED <<termVars, seqVars, siteVars, themeVars>>

\* Escape in the focused field f: the keydown listener of the form empties
\* the field and dispatches an input event
FormEscape(f) ==
    LET heard == inputListeners(fieldMark, messageCounter, f, "")
    IN  /\ ~formFieldsHidden
        /\ activeElement = FieldId(f)
        /\ fieldValue' = [fieldValue EXCEPT ![f] = ""]
        /\ fieldMark' = heard.marks
        /\ messageCounter' = heard.counter
        /\ UNCHANGED <<submitBtn, formFieldsHidden, formSuccessHidden,
                       submissions, mainTimers, announcements, submitBtnClassed>>
        /\ UNCHANGED <<termVars, seqVars, siteVars, activeElement, themeVars>>

\* the visitor clicks outside every control: the focus leaves the field
FocusLeaves ==
    /\ FieldOf(activeElement) # ""
    /\ FocusTo("body")
    /\ UNCHANGED <<termVars, seqVars, siteVars, themeVars, formVars>>

\* the marks and the focus after a submit event that found the focus at the
\* element at: validateForm, then the focus on the first field in error
SubmitFocus(at) ==
    LET arrived   == MoveFocus(fieldMark, activeElement, at, fieldValue)
        validated == validateFormMarks(arrived, fieldValue)
        target    == IF validateForm(fieldValue) THEN at
                     ELSE FieldId(FirstError(fieldValue))
    IN  /\ activeElement' = target
        /\ fieldMark' = MoveFocus(validated, at, target, fieldValue)
        /\ UNCHANGED messageCounter

\* the visitor clicks the enabled submit button
SubmitClick ==
    /\ ~formFieldsHidden
    /\ ~submitBtn.disabled
    /\ SubmitListeners
    /\ SubmitFocus("submit-btn")
    /\ UNCHANGED <<termVars, seqVars, siteVars, themeVars>>

\* Ctrl+Enter in the message field: its keydown listener dispatches a submit
\* event on the form
CtrlEnterInMessage ==
    /\ ~formFieldsHidden
    /\ SubmitListeners
    /\ SubmitFocus(FieldId("message"))
    /\ UNCHANGED <<termVars, seqVars, siteVars, themeVars>>

\* the timer of simulateSubmission fires: Math.random() decides between
\* resolve and reject, and the submit listener resumes after its await with
\* showSuccess or in its catch block
SubmissionSettles(resolved) ==
    /\ submissions > 0
    /\ announcements < MaxAnnouncements
    /\ submissions' = submissions - 1
    /\ announcements' = announcements + 1
    /\ formFieldsHidden' = IF resolved THEN TRUE ELSE formFieldsHidden
    /\ formSuccessHidden' = IF resolved THEN FALSE ELSE formSuccessHidden
    /\ submitBtn' = IF resolved THEN submitBtn ELSE setLoadingState(submitBtn, FALSE)
    /\ FocusTo(IF resolved THEN "form-success" ELSE activeElement)
    /\ UNCHANGED <<fieldValue, mainTimers, submitBtnClassed>>
    /\ UNCHANGED <<termVars, seqVars, siteVars, themeVars>>

\* the timer of main.js's submit listener fires: after the alert the form is
\* reset and the button enabled
MainTimerFires ==
    /\ mainTimers > 0
    /\ mainTimers' = mainTimers - 1
    /\ fieldValue' = [name |-> "", email |-> "", message |-> ""]
    /\ submitBtn' = [submitBtn EXCEPT !.disabled = FALSE]
    /\ UNCHANGED <<formFieldsHidden, formSuccessHidden, submissions,
                   announcements, submitBtnClassed>>
    /\ UNCHANGED <<termVars, seqVars, siteVars, activeElement, markVars, themeVars>>

\* the removal timer of an announcement fires
AnnouncementExpires ==
    /\ announcements > 0
    /\ announcements' = announcements - 1
    /\ UNCHANGED <<fieldValue, submitBtn, formFieldsHidden, formSuccessHidden,
                   submissions, mainTimers, submitBtnClassed>>
    /\ UNCHANGED <<termVars, seqVars, siteVars, activeElement, markVars, themeVars>>

\* the marks resetForm leaves: classes, aria-invalid, touched and error
\* texts cleared
resetMarks(marks) ==
    [f \in Fields |-> [marks[f] EXCEPT !.error = FALSE, !.valid = FALSE,
                                       !.ariaInvalid = "", !.touched = FALSE,
                                       !.errorText = "", !.errorVisible = FALSE]]

\* the click listener of the send-another button of the success panel:
\* resetForm
SendAnotherClick ==
    LET clicked == MoveFocus(fieldMark, activeElement, "send-another", fieldValue)
    IN  /\ ~formSuccessHidden
        /\ fieldValue' = [name |-> "", email |-> "", message |-> ""]
        /\ formFieldsHidden' = FALSE
        /\ formSuccessHidden' = TRUE
        /\ submitBtn' = setLoadingState(submitBtn, FALSE)
        /\ activeElement' = FieldId("name")
        /\ fieldMark' = MoveFocus(resetMarks(clicked), "send-another", FieldId("name"),
                                  [name |-> "", email |-> "", message |-> ""])
        /\ messageCounter' = [length |-> 0, error |-> FALSE]
        /\ UNCHANGED <<submissions, mainTimers, announcements, submitBtnClassed>>
        /\ UNCHANGED <<termVars, seqVars, siteVars, themeVars>>

InitPage ==
    /\ value = ""
    /\ terminalHistory = <<>>
    /\ raised = FALSE
    /\ call = NoCall
    /\ script = <<>>
    /\ pos = 0
    /\ produced = <<>>
    /\ table = commands
    /\ scrollTop = 0
    /\ keyEvent = NoKey
    /\ activeElement = "body"
    /\ localStorage = <<>>
    /\ dataTheme = "dark"
    /\ InitForm
    /\ InitSite
    /\ submitBtnClassed \in BOOLEAN

NextPage ==
    \/ \E r \in FormPageInputs : Type(r)
    \/ KeydownEnter
    \/ TerminalBodyClick
    \/ \E f \in Fields : \E v \in FieldInputs[f] : FormInput(f, v)
    \/ SubmitClick
    \/ \E resolved \in BOOLEAN : SubmissionSettles(resolved)
    \/ MainTimerFires
    \/ AnnouncementExpires
    \/ SendAnotherClick

SpecPage == InitPage /\ [][NextPage]_vars

\* the contact form alone
NextForm ==
    \/ \E f \in Fields : \E v \in FormInputs[f] : FormInput(f, v)
    \/ \E f \in Fields : FormEscape(f)
    \/ FocusLeaves
    \/ SubmitClick
    \/ CtrlEnterInMessage
    \/ \E resolved \in BOOLEAN : SubmissionSettles(resolved)
    \/ MainTimerFires
    \/ AnnouncementExpires
    \/ SendAnotherClick

SpecForm == InitPage /\ [][NextForm]_vars

-----------------------------------------------------------------------------
(* The navigation menu (src/js/navigation.js).  A click on a nav link is    *)
(* followed here while the page stays loaded, as it does for a link to the *)
(* page's own address.                                                      *)

\* the string setAttribute stores for a boolean argument
BooleanToString(b) == IF b THEN "true" ELSE "false"

\* every pending timer was scheduled before the menu's present opening
Staled(timers) == [i \in 1..Len(timers) |-> TRUE]

NavRecord(kind, stale) == [kind |-> kind, stale |-> stale, wasOpen |-> navOpen]

\* a variant of closeMenu that leaves aria-expanded as it is
closeMenu_KeepsAria == [open |-> FALSE, aria |-> ariaExpanded]

\* closeMenu: the class nav-open removed, aria-expanded 'false'
closeMenu == [open |-> FALSE, aria |-> "false"]

\* toggleMenu: the class toggled, aria-expanded set from the class
toggleMenu ==
    LET isOpen == ~navOpen
    IN  [open |-> isOpen, aria |-> BooleanToString(isOpen)]

\* the click listener of the hamburger button
NavToggleClick ==
    /\ navOpen' = toggleMenu.open
    /\ ariaExpanded' = toggleMenu.aria
    /\ linkTimers' = IF toggleMenu.open THEN Staled(linkTimers) ELSE linkTimers
    /\ resizeTimer' = IF toggleMenu.open /\ resizeTimer.pending
                      THEN [pending |-> TRUE, stale |-> TRUE] ELSE resizeTimer
    /\ navEvent' = NavRecord("toggle", FALSE)
    /\ FocusTo("nav-toggle")
    /\ UNCHANGED innerWidth
    /\ UNCHANGED <<termVars, seqVars, themeVars, formVars, modalVars>>

\* the click listener of a nav link: closeMenu is scheduled 100 ms ahead
NavLinkClick ==
    /\ Len(linkTimers) < MaxNavTimers
    /\ linkTimers' = Append(linkTimers, FALSE)
    /\ navEvent' = NavRecord("link", FALSE)
    /\ FocusTo("nav-link")
    /\ UNCHANGED <<navOpen, ariaExpanded, resizeTimer, innerWidth>>
    /\ UNCHANGED <<termVars, seqVars, themeVars, formVars, modalVars>>

\* the oldest timer of a nav-link click fires: closeMenu
LinkTimerFires ==
    /\ linkTimers # <<>>
    /\ linkTimers' = Tail(linkTimers)
    /\ navOpen' = closeMenu.open
    /\ ariaExpanded' = closeMenu.aria
    /\ navEvent' = NavRecord("linkTimer", Head(linkTimers))
    /\ UNCHANGED <<resizeTimer, innerWidth>>
    /\ UNCHANGED <<termVars, seqVars, activeElement, markVars, themeVars, formVars, modalVars>>

\* handleKeydown on the key k: Escape closes an open menu and gives the
\* button the focus
NavKeydown(k) ==
    LET closes == k = "Escape" /\ navOpen
    IN  /\ navOpen' = IF closes THEN closeMenu.open ELSE navOpen
        /\ ariaExpanded' = IF closes THEN closeMenu.aria ELSE ariaExpanded
        /\ FocusTo(IF closes THEN "nav-toggle" ELSE activeElement)
        /\ navEvent' = NavRecord(k, FALSE)
        /\ UNCHANGED <<linkTimers, resizeTimer, innerWidth>>
        /\ UNCHANGED <<termVars, seqVars, themeVars, formVars, modalVars>>

\* the resize listener at the new width w: the pending timer is cleared and
\* a new one set 100 ms ahead
Resize(w) ==
    /\ w # innerWidth
    /\ innerWidth' = w
    /\ resizeTimer' = [pending |-> TRUE, stale |-> FALSE]
    /\ navEvent' = NavRecord("resize", FALSE)
    /\ UNCHANGED <<navOpen, ariaExpanded, linkTimers>>
    /\ UNCHANGED <<termVars, seqVars, activeElement, markVars, themeVars, formVars, modalVars>>

\* the timer of the resize listener fires: closeMenu at desktop width
ResizeTimerFires ==
    /\ resizeTimer.pending
    /\ resizeTimer' = [pending |-> FALSE, stale |-> FALSE]
    /\ navOpen' = IF innerWidth >= 768 THEN closeMenu.open ELSE navOpen
    /\ ariaExpanded' = IF innerWidth >= 768 THEN closeMenu.aria ELSE ariaExpanded
    /\ navEvent' = NavRecord("resizeTimer", resizeTimer.stale)
    /\ UNCHANGED <<linkTimers, innerWidth>>
    /\ UNCHANGED <<termVars, seqVars, activeElement, markVars, themeVars, formVars, modalVars>>

NextNav ==
    \/ NavToggleClick
    \/ NavLinkClick
    \/ LinkTimerFires
    \/ \E k \in OtherKeys : NavKeydown(k)
    \/ \E w \in Widths : Resize(w)
    \/ ResizeTimerFires

SpecNav == Init /\ [][NextNav]_vars

-----------------------------------------------------------------------------
(* The certificate viewer of certifications.js (#cert-modal) and the        *)
(* certificate overlay of main.js (.modal-overlay).  Each is followed in a  *)
(* document of its own.  The drag and touch scrolling of the zoomed image   *)
(* is not followed.                                                         *)

\* the data-cert attributes of the certificate cards; a card may lack it
CertCards == {"aws.jpg", "gcp.jpg", ""}

ModalRecord(kind, active) == [kind |-> kind, wasActive |-> active]

\* openModal(imageSrc) of certifications.js, past its test of imageSrc
certOpenModal(v, imageSrc) ==
    [v EXCEPT !.loaderHidden = FALSE, !.opacity = "0", !.src = imageSrc,
              !.loading = TRUE, !.active = TRUE, !.ariaHidden = "false",
              !.overflow = "hidden", !.focusTimers = @ + 1]

\* a variant of closeModal that leaves the body's overflow as it is
certCloseModal_KeepsOverflow(v) ==
    [v EXCEPT !.active = FALSE, !.ariaHidden = "true",
              !.zoomed = FALSE, !.closeTimers = @ + 1]

\* closeModal of certifications.js; isZoomed is not among what it resets
certCloseModal(v) ==
    [v EXCEPT !.active = FALSE, !.ariaHidden = "true", !.overflow = "",
              !.zoomed = FALSE, !.closeTimers = @ + 1]

\* the click listener of the zoom button
zoomClick(v) ==
    LET z == ~v.isZoomed
    IN  [v EXCEPT !.isZoomed = z, !.zoomed = z,
                  !.zoomIcon = IF z THEN "minus" ELSE "plus"]

\* a card is clicked, its view button is clicked, or Enter or Space is
\* pressed on it: the three listeners open the viewer if the card has a source
CertCardOpen(c) ==
    /\ c # "" => certViewer.focusTimers < MaxModalTimers
    /\ certViewer' = IF c # "" THEN certOpenModal(certViewer, c) ELSE certViewer
    /\ certLast' = IF c # "" THEN c ELSE certLast
    /\ certEvent' = ModalRecord("open", certViewer.active)
    /\ FocusTo("cert-card")
    /\ UNCHANGED <<overlayVars, projVars>>
    /\ UNCHANGED <<termVars, seqVars, themeVars, formVars, navVars>>

\* the close button or the backdrop of the open viewer is clicked
CertCloseClick ==
    /\ certViewer.active
    /\ certViewer.closeTimers < MaxModalTimers
    /\ certViewer' = certCloseModal(certViewer)
    /\ certEvent' = ModalRecord("close", certViewer.active)
    /\ UNCHANGED <<certLast, activeElement, markVars, overlayVars, projVars>>
    /\ UNCHANGED <<termVars, seqVars, themeVars, formVars, navVars>>

\* the keydown listener of the document: Escape closes an active viewer
CertKeydown(k) ==
    LET closes == k = "Escape" /\ certViewer.active
    IN  /\ closes => certViewer.closeTimers < MaxModalTimers
        /\ certViewer' = IF closes THEN certCloseModal(certViewer) ELSE certViewer
        /\ certEvent' = ModalRecord(k, certViewer.active)
        /\ UNCHANGED <<certLast, activeElement, markVars, overlayVars, projVars>>
        /\ UNCHANGED <<termVars, seqVars, themeVars, formVars, navVars>>
\* the 300 ms timer of closeModal fires: the image is cleared
CertCloseTimerFires ==
    /\ certViewer.closeTimers > 0
    /\ certViewer' = [certViewer EXCEPT !.closeTimers = @ - 1, !.src = "",
                                        !.opacity = "0", !.loaderHidden = FALSE,
                                        !.loading = FALSE]
    /\ certEvent' = ModalRecord("closeTimer", certViewer.active)
    /\ UNCHANGED <<certLast, activeElement, markVars, overlayVars, projVars>>
    /\ UNCHANGED <<termVars, seqVars, themeVars, formVars, navVars>>

\* the 100 ms timer of openModal fires: the close button gets the focus
CertFocusTimerFires ==
    /\ certViewer.focusTimers > 0
    /\ certViewer' = [certViewer EXCEPT !.focusTimers = @ - 1]
    /\ certEvent' = ModalRecord("focusTimer", certViewer.active)
    /\ FocusTo("cert-modal-close")
    /\ UNCHANGED <<certLast, overlayVars, projVars>>
    /\ UNCHANGED <<termVars, seqVars, themeVars, formVars, navVars>>

\* the load listener (ok) or the error listener of the image
CertImgSettles(ok) ==
    /\ certViewer.loading
    /\ certViewer' = [certViewer EXCEPT !.loading = FALSE, !.loaderHidden = TRUE,
                                        !.opacity = IF ok THEN "1" ELSE @]
    /\ certEvent' = ModalRecord(IF ok THEN "load" ELSE "error", certViewer.active)
    /\ UNCHANGED <<certLast, activeElement, markVars, overlayVars, projVars>>
    /\ UNCHANGED <<termVars, seqVars, themeVars, formVars, navVars>>

\* the zoom button of the open viewer is clicked
CertZoomClick ==
    /\ certViewer.active
    /\ certViewer' = zoomClick(certViewer)
    /\ certEvent' = ModalRecord("zoom", certViewer.active)
    /\ FocusTo("cert-modal-zoom")
    /\ UNCHANGED <<certLast, overlayVars, projVars>>
    /\ UNCHANGED <<termVars, seqVars, themeVars, formVars, navVars>>

\* the image of the open viewer is double-clicked: its listener clicks the
\* zoom button
CertImgDblClick ==
    /\ certViewer.active
    /\ certViewer' = zoomClick(certViewer)
    /\ certEvent' = ModalRecord("dblclick", certViewer.active)
    /\ UNCHANGED <<certLast, activeElement, markVars, overlayVars, projVars>>
    /\ UNCHANGED <<termVars, seqVars, themeVars, formVars, navVars>>

\* main.js: the click listener of a certificate card
OverlayCardClick(c) ==
    /\ overlayViewer' = IF c # ""
                        THEN [overlayViewer EXCEPT !.src = c, !.active = TRUE,
                                                   !.overflow = "hidden"]
                        ELSE overlayViewer
    /\ overlayLast' = IF c # "" THEN c ELSE overlayLast
    /\ overlayEvent' = ModalRecord("open", overlayViewer.active)
    /\ FocusTo(IF c # "" THEN "modal-close" ELSE "cert-card")
    /\ UNCHANGED <<certVars, projVars>>
    /\ UNCHANGED <<termVars, seqVars, themeVars, formVars, navVars>>

\* main.js: closeModal
overlayCloseModal(v) ==
    [v EXCEPT !.active = FALSE, !.overflow = "", !.closeTimers = @ + 1]

\* main.js: the close button or the overlay itself is clicked, or the open
\* overlay is swiped down
OverlayCloseClick ==
    /\ overlayViewer.active
    /\ overlayViewer.closeTimers < MaxModalTimers
    /\ overlayViewer' = overlayCloseModal(overlayViewer)
    /\ overlayEvent' = ModalRecord("close", overlayViewer.active)
    /\ UNCHANGED <<overlayLast, activeElement, markVars, certVars, projVars>>
    /\ UNCHANGED <<termVars, seqVars, themeVars, formVars, navVars>>

\* main.js: the keydown listener of the document
OverlayKeydown(k) ==
    LET closes == k = "Escape" /\ overlayViewer.active
    IN  /\ closes => overlayViewer.closeTimers < MaxModalTimers
        /\ overlayViewer' = IF closes THEN overlayCloseModal(overlayViewer)
                            ELSE overlayViewer
        /\ overlayEvent' = ModalRecord(k, overlayViewer.active)
        /\ UNCHANGED <<overlayLast, activeElement, markVars, certVars, projVars>>
        /\ UNCHANGED <<termVars, seqVars, themeVars, formVars, navVars>>
\* main.js: the timer of closeModal fires
OverlayCloseTimerFires ==
    /\ overlayViewer.closeTimers > 0
    /\ overlayViewer' = [overlayViewer EXCEPT !.closeTimers = @ - 1, !.src = ""]
    /\ overlayEvent' = ModalRecord("closeTimer", overlayViewer.active)
    /\ UNCHANGED <<overlayLast, activeElement, markVars, certVars, projVars>>
    /\ UNCHANGED <<termVars, seqVars, themeVars, formVars, navVars>>

NextCert ==
    \/ \E c \in CertCards : CertCardOpen(c)
    \/ CertCloseClick
    \/ \E k \in OtherKeys : CertKeydown(k)
    \/ CertCloseTimerFires
    \/ CertFocusTimerFires
    \/ \E ok \in BOOLEAN : CertImgSettles(ok)
    \/ CertZoomClick
    \/ CertImgDblClick
    \/ \E c \in CertCards : OverlayCardClick(c)
    \/ OverlayCloseClick
    \/ \E k \in OtherKeys : OverlayKeydown(k)
    \/ OverlayCloseTimerFires

SpecCert == Init /\ [][NextCert]_vars

-----------------------------------------------------------------------------
(* The projects page (src/js/projects.js): the filter buttons and the       *)
(* project modal.                                                           *)

\* the data-filter attributes of the filter buttons
FilterButtons == {"all", "web", "fullstack", "mobile"}

\* the data-category attribute of each project card, by its data-project;
\* the third card is not in projectsData
CardCategory ==
    [c \in {"property-shodh", "virtual-office", "portfolio"} |->
        IF c = "virtual-office" THEN "fullstack" ELSE "web"]

ProjectCards == DOMAIN CardCategory

\* the keys of projectsData
projectsData == {"property-shodh", "virtual-office"}

\* a variant of the filter listener's test that ignores the categories
FilterShown_OnlyAll(filter, c) == filter = "all"

\* the test of the filter listener: the card c is shown under the filter
FilterShown(filter, c) == filter = "all" \/ CardCategory[c] = filter

\* the click listener of the filter button b
FilterClick(b) ==
    /\ projects' =
         [activeBtns  |-> (projects.activeBtns \ FilterButtons) \cup {b},
          hiddenCards |-> (projects.hiddenCards \ {c \in ProjectCards : FilterShown(b, c)})
                              \cup {c \in ProjectCards : ~FilterShown(b, c)}]
    /\ filterEvent' = b
    /\ FocusTo("filter-btn")
    /\ UNCHANGED <<projModal, projEvent, certVars, overlayVars>>
    /\ UNCHANGED <<termVars, seqVars, themeVars, formVars, navVars>>

\* openModal(projectId) of projects.js, past its test of the project
projOpenModal(m, projectId) ==
    [m EXCEPT !.shown = projectId, !.active = TRUE, !.ariaHidden = "false",
              !.overflow = "hidden", !.focusTimers = @ + 1]

\* closeModal of projects.js
projCloseModal(m) ==
    [m EXCEPT !.active = FALSE, !.ariaHidden = "true", !.overflow = ""]

\* openHandler: the details button or the overlay button of the card c
ProjOpenClick(c) ==
    LET opens == c \in projectsData
    IN  /\ opens => projModal.focusTimers < MaxModalTimers
        /\ projModal' = IF opens THEN projOpenModal(projModal, c) ELSE projModal
        /\ projEvent' = ModalRecord("open", projModal.active)
        /\ FocusTo("project-card")
        /\ UNCHANGED <<projects, filterEvent, certVars, overlayVars>>
        /\ UNCHANGED <<termVars, seqVars, themeVars, formVars, navVars>>
\* the close button or the backdrop of the open modal is clicked
ProjCloseClick ==
    /\ projModal.active
    /\ projModal' = projCloseModal(projModal)
    /\ projEvent' = ModalRecord("close", projModal.active)
    /\ UNCHANGED <<projects, filterEvent, activeElement, markVars, certVars, overlayVars>>
    /\ UNCHANGED <<termVars, seqVars, themeVars, formVars, navVars>>

\* the keydown listener of the document: Escape closes an active modal
ProjKeydown(k) ==
    LET closes == k = "Escape" /\ projModal.active
    IN  /\ projModal' = IF closes THEN projCloseModal(projModal) ELSE projModal
        /\ projEvent' = ModalRecord(k, projModal.active)
        /\ UNCHANGED <<projects, filterEvent, activeElement, markVars, certVars, overlayVars>>
        /\ UNCHANGED <<termVars, seqVars, themeVars, formVars, navVars>>
\* the 100 ms timer of openModal fires: the close button gets the focus
ProjFocusTimerFires ==
    /\ projModal.focusTimers > 0
    /\ projModal' = [projModal EXCEPT !.focusTimers = @ - 1]
    /\ projEvent' = ModalRecord("focusTimer", projModal.active)
    /\ FocusTo("project-modal-close")
    /\ UNCHANGED <<projects, filterEvent, certVars, overlayVars>>
    /\ UNCHANGED <<termVars, seqVars, themeVars, formVars, navVars>>

NextProj ==
    \/ \E b \in FilterButtons : FilterClick(b)
    \/ \E c \in ProjectCards : ProjOpenClick(c)
    \/ ProjCloseClick
    \/ \E k \in OtherKeys : ProjKeydown(k)
    \/ ProjFocusTimerFires

SpecProj == Init /\ [][NextProj]_vars

\* the viewer of certifications.js and the project modal, side by side
NextModals ==
    \/ \E c \in CertCards : CertCardOpen(c)
    \/ CertCloseClick
    \/ \E k \in OtherKeys : CertKeydown(k)
    \/ CertCloseTimerFires
    \/ CertFocusTimerFires
    \/ CertZoomClick
    \/ \E c \in ProjectCards : ProjOpenClick(c)
    \/ ProjCloseClick
    \/ \E k \in OtherKeys : ProjKeydown(k)
    \/ ProjFocusTimerFires

SpecModals == Init /\ [][NextModals]_vars

-----------------------------------------------------------------------------
(* Sessions: a fixed list of lines, each typed and submitted with Enter *)

IsPrefix(p, q) == Len(p) <= Len(q) /\ SubSeq(q, 1, Len(p)) = p

\* what a submission added to the transcript h, leaving h2
NewEntries(h, h2) ==
    IF IsPrefix(h, h2) THEN SubSeq(h2, Len(h) + 1, Len(h2)) ELSE <<>>

InitSeq ==
    /\ value = ""
    /\ terminalHistory = <<>>
    /\ raised = FALSE
    /\ call = NoCall
    /\ InitForm
    /\ InitSite
    /\ submitBtnClassed = FALSE
    /\ script \in SeqsUpTo(ScriptInputs, MaxScript)
    /\ pos = 0
    /\ produced = <<>>
    /\ table = commands
    /\ scrollTop = 0
    /\ keyEvent = NoKey
    /\ activeElement = "body"
    /\ localStorage = <<>>
    /\ dataTheme = "dark"

RunNext ==
    /\ pos < Len(script)
    /\ EnterWith(script[pos + 1])
    /\ pos' = pos + 1
    /\ produced' = Append(produced, NewEntries(terminalHistory, terminalHistory'))
    /\ keyEvent' = KeyRecord("Enter", 1)
    /\ UNCHANGED <<script, siteVars, themeVars, formVars>>

NextSeq == RunNext

SpecSeq == InitSeq /\ [][NextSeq]_vars

-----------------------------------------------------------------------------
(* Vocabulary of the properties *)

IsEcho(e) == e.className = "terminal-history-line"

IsOutput(e) == e.className = "terminal-output"

\* t occurs in s as a substring
Contains(s, t) ==
    \E i \in 0..(Len(s) - Len(t)) : SubSeq(s, i + 1, i + Len(t)) = t

\* the entries the last submission left after the ones it found
Appended == NewEntries(call.before, terminalHistory)

OutputsIn(entries) == {i \in 1..Len(entries) : IsOutput(entries[i])}

\* the last submission's command is neither a table key, nor clear, nor empty
Unrecognized == call.made /\ call.cmd \notin DOMAIN commands \cup {"clear", ""}

-----------------------------------------------------------------------------
(* Properties of the terminal *)

\* C1: executing a supported command c appends exactly two entries to the
\* transcript it found: an echo entry containing c and, directly after it,
\* the one output entry, whose text is the table's value for c.
C1_SupportedCommand ==
    \A c \in DOMAIN commands :
        (call.made /\ call.cmd = c) =>
            /\ IsPrefix(call.before, terminalHistory)
            /\ Len(Appended) = 2
            /\ IsEcho(Appended[1]) /\ Contains(Appended[1].innerHTML, c)
            /\ IsOutput(Appended[2]) /\ Appended[2].textContent = commands[c]

C1_Witness ==
    /\ call.made /\ call.cmd = "projects" /\ call.before # <<>>
    /\ Len(terminalHistory) = Len(call.before) + 2
    /\ terminalHistory[Len(terminalHistory)].textContent = commands["projects"]

\* C2: executing a string s that is no table key, not clear and not empty
\* appends an output entry whose text is exactly
\* "Command not found: <s>. Type 'help' for available commands."
C2_NotFoundText ==
    Unrecognized =>
        /\ terminalHistory # <<>>
        /\ IsOutput(terminalHistory[Len(terminalHistory)])
        /\ terminalHistory[Len(terminalHistory)].textContent
             = "Command not found: " \o call.cmd \o ". Type 'help' for available commands."

\* C3: executing clear leaves the transcript empty, whatever its length was,
\* with no echo of the clear command and no output entry in it.
C3_ClearEmpties ==
    (call.made /\ call.cmd = "clear") => terminalHistory = <<>>

C3_Witness ==
    /\ call.made /\ call.cmd = "clear" /\ Len(call.before) >= 2
    /\ terminalHistory = <<>>

\* C4 as stated: when the normalized input is empty the transcript after the
\* call equals the transcript before it.
C4_EmptyAppendsNothing ==
    (call.made /\ call.cmd = "") => terminalHistory = call.before

\* C4 as amended: when the normalized input is empty the call appends exactly
\* one entry, an echo entry holding the prompt and an empty command text, and
\* no output entry; the entries it found are unchanged.
C4_EmptyAppendsEchoOnly ==
    (call.made /\ call.cmd = "") =>
        /\ IsPrefix(call.before, terminalHistory)
        /\ Len(Appended) = 1
        /\ IsEcho(Appended[1])
        /\ Contains(Appended[1].innerHTML, "aryan@dev")
        /\ SubSeq(Appended[1].innerHTML, Len(Appended[1].innerHTML) - 12,
                  Len(Appended[1].innerHTML)) = "<span></span>"

C4_Witness ==
    /\ call.made /\ call.cmd = "" /\ call.raw = "   " /\ call.before # <<>>
    /\ Len(terminalHistory) = Len(call.before) + 1
    /\ IsEcho(terminalHistory[Len(terminalHistory)])

\* C5: executing the empty string or a string of white space only appends no
\* output entry, whatever the transcript held before.
C5_BlankNoOutput ==
    (call.made /\ \A i \in 1..Len(call.raw) : CharAt(call.raw, i) \in {" ", "\t"}) =>
        /\ IsPrefix(call.before, terminalHistory)
        /\ OutputsIn(Appended) = {}

C5_Witness ==
    /\ call.made /\ call.raw = "   " /\ Len(call.before) >= 2
    /\ Len(terminalHistory) = Len(call.before) + 1

\* n is r without its leading and trailing white space and with every
\* upper-case letter replaced by its lower-case counterpart
IsNormalFormOf(n, r) ==
    \E i, j \in 0..Len(r) :
        /\ i + j <= Len(r)
        /\ \A k \in 1..i : CharAt(r, k) \in {" ", "\t"}
        /\ \A k \in (Len(r) - j + 1)..Len(r) : CharAt(r, k) \in {" ", "\t"}
        /\ i + j < Len(r) =>
              /\ CharAt(r, i + 1) \notin {" ", "\t"}
              /\ CharAt(r, Len(r) - j) \notin {" ", "\t"}
        /\ Len(n) = Len(r) - i - j
        /\ \A k \in 1..Len(n) :
              \/ /\ CharAt(n, k) = CharAt(r, i + k)
                 /\ ~Contains("ABCDEFGHIJKLMNOPQRSTUVWXYZ", CharAt(r, i + k))
              \/ \E l \in 1..26 :
                    /\ CharAt("ABCDEFGHIJKLMNOPQRSTUVWXYZ", l) = CharAt(r, i + k)
                    /\ CharAt("abcdefghijklmnopqrstuvwxyz", l) = CharAt(n, k)

\* the normal forms of the lines a visitor types
NormalForms ==
    {"help", "whoami", "ls", "projects", "skills", "contact", "social",
     "clear", "", "foo", "constructor", "__proto__", "ls projects",
     "clear all", "<b>x", "a&amp;b", "1<2"}

\* C6: a raw input leaves the transcript that its normal form (lower case,
\* no leading or trailing white space) leaves when typed instead, so raw
\* inputs with one normal form produce the same echo and the same output;
\* "WHOAMI", "  whoami  " and "whoami" all append the whoami echo and answer.
C6_NormalizedLookup ==
    call.made =>
        /\ \E n \in NormalForms : IsNormalFormOf(n, call.raw)
        /\ \A n \in NormalForms :
              IsNormalFormOf(n, call.raw) =>
                  terminalHistory = executeCommand(call.before, n).history
        /\ call.raw \in {"WHOAMI", "  whoami  ", "whoami"} =>
              /\ Len(Appended) = 2
              /\ Contains(Appended[1].innerHTML, "<span>whoami</span>")
              /\ Appended[2].textContent = commands["whoami"]

C6_Witness ==
    /\ call.made /\ call.raw = "  whoami  " /\ call.cmd = "whoami"
    /\ Len(call.before) = 2 /\ Len(terminalHistory) = 4
    /\ terminalHistory[2].textContent = commands["whoami"]
    /\ terminalHistory[1] = terminalHistory[3]
    /\ terminalHistory[2] = terminalHistory[4]

RECURSIVE Flatten(_)
Flatten(ss) == IF ss = <<>> THEN <<>> ELSE Head(ss) \o Flatten(Tail(ss))

LastClear == CHOOSE k \in 1..Len(script) :
                 /\ script[k] = "clear"
                 /\ \A m \in (k + 1)..Len(script) : script[m] # "clear"

\* C7: when a session that contains a clear has run, the transcript holds
\* exactly the entries the submissions after the last clear appended; the
\* session help, ls, clear, whoami ends with the whoami echo followed by the
\* whoami answer and nothing else.
C7_OnlyAfterLastClear ==
    /\ (pos = Len(script) /\ \E k \in 1..Len(script) : script[k] = "clear") =>
          terminalHistory = Flatten(SubSeq(produced, LastClear + 1, Len(script)))
    /\ (pos = Len(script) /\ script = <<"help", "ls", "clear", "whoami">>) =>
          /\ Len(terminalHistory) = 2
          /\ IsEcho(terminalHistory[1])
          /\ Contains(terminalHistory[1].innerHTML, "<span>whoami</span>")
          /\ IsOutput(terminalHistory[2])
          /\ terminalHistory[2].textContent = commands["whoami"]

C7_Witness ==
    /\ script = <<"help", "ls", "clear", "whoami">> /\ pos = 4
    /\ Len(produced) = 4 /\ Len(produced[1]) = 2 /\ Len(produced[2]) = 2
    /\ Len(terminalHistory) = 2

C9_AppendOnly ==
    call.made =>
        /\ call.cmd # "clear" =>
              /\ IsPrefix(call.before, terminalHistory)
              /\ Len(terminalHistory) >= Len(call.before)
        /\ Len(terminalHistory) < Len(call.before) =>
              /\ call.cmd = "clear"
              /\ terminalHistory = <<>>

C9_Witness ==
    /\ call.made /\ call.cmd = "foo" /\ Len(call.before) = 2
    /\ Len(terminalHistory) = 4
    /\ SubSeq(terminalHistory, 1, 2) = call.before

\* C10: no terminal handler raises: every Enter submission returns, and an
\* unrecognized command ends in an output entry, not in an exception.
C10_NeverRaises ==
    /\ ~raised
    /\ call.made => call.returned
    /\ Unrecognized =>
          /\ terminalHistory # <<>>
          /\ IsOutput(terminalHistory[Len(terminalHistory)])

C10_Witness ==
    /\ call.made /\ call.cmd = "foo" /\ call.returned /\ ~raised
    /\ value = ""
    /\ IsOutput(terminalHistory[Len(terminalHistory)])
    /\ Contains(terminalHistory[Len(terminalHistory)].textContent, "Command not found: foo")

-----------------------------------------------------------------------------
(* How the browser renders the markup assigned to innerHTML *)

IsLetter(c) == Contains(UpperCaseLetters, c) \/ Contains(LowerCaseLetters, c)

\* the position of the first ">" of s at or after i, or 0
RECURSIVE TagEnd(_, _)
TagEnd(s, i) ==
    IF i > Len(s) THEN 0
    ELSE IF CharAt(s, i) = ">" THEN i
    ELSE TagEnd(s, i + 1)

StartsWith(s, i, t) == SubSeq(s, i, i + Len(t) - 1) = t

\* a variant of the parser that takes the markup as plain text
RenderedFrom_Literal(s, i) == SubSeq(s, i, Len(s))

\* the text content of the nodes the HTML parser builds from s, read from
\* position i: "<" before a letter, "/", "!" or "?" opens a tag or comment
\* that runs to the next ">" (to the end of input when there is none) and
\* yields no text; the character references &amp; &lt; &gt; yield the
\* character they name; every other character is text
RECURSIVE RenderedFrom(_, _)
RenderedFrom(s, i) ==
    IF i > Len(s) THEN ""
    ELSE IF CharAt(s, i) = "<" /\ i < Len(s)
            /\ (IsLetter(CharAt(s, i + 1)) \/ CharAt(s, i + 1) \in {"/", "!", "?"})
         THEN IF TagEnd(s, i) = 0 THEN "" ELSE RenderedFrom(s, TagEnd(s, i) + 1)
    ELSE IF StartsWith(s, i, "&amp;") THEN "&" \o RenderedFrom(s, i + 5)
    ELSE IF StartsWith(s, i, "&lt;") THEN "<" \o RenderedFrom(s, i + 4)
    ELSE IF StartsWith(s, i, "&gt;") THEN ">" \o RenderedFrom(s, i + 4)
    ELSE CharAt(s, i) \o RenderedFrom(s, i + 1)

\* what an entry shows: the parsed markup of an echo line, the text of an
\* output line
RenderedText(e) ==
    IF IsEcho(e) THEN RenderedFrom(e.innerHTML, 1) ELSE e.textContent

-----------------------------------------------------------------------------
(* Properties of the terminal, continued *)

\* C11: lookup is by equality of the whole normalized input: an input made of
\* a command name, a space and further text is answered with the not-found
\* line for the whole input, "ls projects" and "clear all" included.
C11_NoArguments ==
    \A c \in DOMAIN commands \cup {"clear"} :
        (call.made /\ Len(call.cmd) > Len(c) + 1
                   /\ SubSeq(call.cmd, 1, Len(c) + 1) = c \o " ") =>
            /\ IsPrefix(call.before, terminalHistory)
            /\ Len(Appended) = 2
            /\ IsOutput(Appended[2])
            /\ Appended[2].textContent
                 = "Command not found: " \o call.cmd \o ". Type 'help' for available commands."

C11_Witness ==
    /\ call.made /\ call.cmd = "ls projects"
    /\ Len(terminalHistory) = 2
    /\ Contains(terminalHistory[2].textContent, "Command not found: ls projects.")

\* C12: what an execute other than clear appends is fixed by the normalized
\* input alone: on any transcript it appends the entries it appends on the
\* empty transcript.
C12_HistoryIndependent ==
    (call.made /\ call.cmd # "clear") =>
        /\ IsPrefix(call.before, terminalHistory)
        /\ Appended = executeCommand(<<>>, call.cmd).history

C12_Witness ==
    /\ call.made /\ call.cmd = "ls" /\ Len(call.before) = 2
    /\ Len(terminalHistory) = 4
    /\ terminalHistory[4] = call.before[2]
    /\ terminalHistory[3] = call.before[1]

\* the pieces of s between the occurrences of the separator sep
RECURSIVE SplitOn(_, _)
SplitOn(s, sep) ==
    IF Contains(s, sep)
    THEN LET i == CHOOSE k \in 0..(Len(s) - Len(sep)) :
                      /\ SubSeq(s, k + 1, k + Len(sep)) = sep
                      /\ \A m \in 0..(k - 1) : SubSeq(s, m + 1, m + Len(sep)) # sep
         IN  {SubSeq(s, 1, i)} \cup SplitOn(SubSeq(s, i + Len(sep) + 1, Len(s)), sep)
    ELSE {s}

\* the names a help line lists after its heading
NamesListed(text) ==
    SplitOn(SubSeq(text, Len("Available commands: ") + 1, Len(text)), ", ")

\* C13: the answer to help lists exactly the available commands: the names
\* in it are the keys of the command table plus clear, none missing and none
\* extra.
C13_HelpListsCommands ==
    (call.made /\ call.cmd = "help") =>
        /\ terminalHistory # <<>>
        /\ IsOutput(terminalHistory[Len(terminalHistory)])
        /\ StartsWith(terminalHistory[Len(terminalHistory)].textContent, 1, "Available commands: ")
        /\ NamesListed(terminalHistory[Len(terminalHistory)].textContent)
             = DOMAIN table \cup {"clear"}
        /\ NamesListed(terminalHistory[Len(terminalHistory)].textContent)
             = {"help", "clear", "whoami", "ls", "projects", "skills", "contact", "social"}

C13_Witness ==
    /\ call.made /\ call.cmd = "help" /\ Len(terminalHistory) = 2
    /\ Cardinality(NamesListed(terminalHistory[2].textContent)) = 8

\* C19: every echo entry shows the prompt followed by the command text
\* character for character, markup characters included.
C19_EchoShowsLiteralCommand ==
    (call.made /\ call.cmd # "clear") =>
        /\ IsPrefix(call.before, terminalHistory)
        /\ Appended # <<>>
        /\ IsEcho(Appended[1])
        /\ RenderedText(Appended[1]) = "aryan@dev:~$ " \o call.cmd

\* C20: the command table holds, after any sequence of submissions, the seven
\* entries it was created with.
C20_TableImmutable ==
    table = commands

C20_Witness ==
    /\ call.made /\ call.cmd = "foo" /\ Len(call.before) = 2
    /\ Len(terminalHistory) = 4
    /\ DOMAIN table = {"help", "whoami", "ls", "projects", "skills", "contact", "social"}

\* C14: every execute that appends an entry, the echo alone or the echo and
\* an output, ends with the terminal body scrolled to the end of the
\* transcript.
C14_ScrolledAfterAppend ==
    [][(call' # call /\ call'.made /\ Len(terminalHistory') > Len(terminalHistory))
          => scrollTop' = ScrollBottom(terminalHistory')]_vars

\* C18: a keydown on the terminal field runs executeCommand once when the key
\* is Enter and not at all otherwise; after Enter the field is empty, after
\* any other key the transcript and the pending text are as before.
C18_OnlyEnterExecutes ==
    /\ keyEvent.executions >= 1 => keyEvent.key = "Enter"
    /\ keyEvent.key = "Enter" => (keyEvent.executions = 1 /\ keyEvent.valueAfter = "")
    /\ keyEvent.key \notin {"", "Enter"} =>
          /\ keyEvent.executions = 0
          /\ keyEvent.valueKept
          /\ keyEvent.historyKept

C18_Witness ==
    /\ keyEvent.key = "a" /\ value = "ls" /\ call.made
    /\ Len(terminalHistory) = 2 /\ call.cmd = "ls"
    /\ terminalHistory = executeCommand(<<>>, "ls").history

\* C15 as stated: no interaction writes persistent storage, so what outlives
\* a reload is what it was when the page was first opened.
C15_NothingPersisted ==
    localStorage = <<>>

\* C15 as amended: the one persistent item is localStorage's theme; a click
\* on the theme toggle stores the theme it switches to and initialisation
\* reads it, so the theme shown is the stored one (dark when none is stored);
\* no other interaction changes persistent storage.
C15_OnlyThemePersisted ==
    /\ [](DOMAIN localStorage \subseteq {"theme"} /\ dataTheme = StoredTheme)
    /\ [][localStorage' # localStorage =>
             /\ dataTheme' # dataTheme
             /\ termVars' = termVars
             /\ localStorage' = [theme |-> dataTheme']]_vars

C15_Witness ==
    /\ DOMAIN localStorage = {"theme"} /\ localStorage["theme"] = "light"
    /\ dataTheme = "light"
    /\ call.made /\ Len(terminalHistory) = 2 /\ activeElement = "terminal-input"


-----------------------------------------------------------------------------
Timers == <<submissions, mainTimers, announcements>>

C17_OnlyExecuteMutates ==
    [][terminalHistory' # terminalHistory =>
          /\ keyEvent'.key = "Enter"
          /\ call'.made
          /\ call'.before = terminalHistory
          /\ terminalHistory' = executeCommand(terminalHistory, call'.cmd).history
          /\ formVars' = formVars]_vars

\* a transcript of two lines that has outlived a form submission's timer
C17_Witness ==
    /\ Len(terminalHistory) = 2
    /\ ~formSuccessHidden
    /\ activeElement = "form-success"
    /\ submissions = 0


-----------------------------------------------------------------------------
\* C27: aria-expanded of the hamburger button is 'true' exactly when the body
\* has the class nav-open, whatever toggles, keys, link clicks, resizes and
\* timers came before; and a keydown closes the menu only if the key is
\* Escape and the menu was open, and changes nothing of the menu otherwise
C27_AriaMatchesMenu ==
    /\ [](ariaExpanded = "true" <=> navOpen)
    /\ [](ariaExpanded \in {"true", "false"})
    /\ [][navEvent'.kind \in OtherKeys /\ navEvent' # navEvent =>
            IF navEvent'.kind = "Escape" /\ navOpen
            THEN ~navOpen' /\ ariaExpanded' = "false"
            ELSE navOpen' = navOpen /\ ariaExpanded' = ariaExpanded]_vars

\* an Escape press has closed an open menu
C27_Witness ==
    /\ navEvent.kind = "Escape"
    /\ navEvent.wasOpen
    /\ ~navOpen
    /\ ariaExpanded = "false"

\* C28: an open menu is closed only by a toggle, an Escape press, or the
\* delayed close of a nav-link click or resize that happened after the menu
\* was opened; a timer scheduled before the opening never closes it
C28_NoStaleClose ==
    [][navOpen /\ ~navOpen' =>
          \/ navEvent'.kind \in {"toggle", "Escape"}
          \/ (navEvent'.kind \in {"linkTimer", "resizeTimer"} /\ ~navEvent'.stale)]_vars


-----------------------------------------------------------------------------
\* C21 as stated: the flag isZoomed of the zoom control agrees with the
\* class zoomed of the viewer's content, whatever zoom clicks, double-clicks,
\* closes and reopenings came before
C21_ZoomFlagMatchesClass == certViewer.isZoomed <=> certViewer.zoomed

\* C22 as stated: while a viewer is open and none of its timers is pending,
\* its image shows the source it was last opened with
C22_ImageOfLastOpened ==
    /\ (certViewer.active /\ certViewer.closeTimers = 0 /\ certViewer.focusTimers = 0)
          => certViewer.src = certLast
    /\ (overlayViewer.active /\ overlayViewer.closeTimers = 0)
          => overlayViewer.src = overlayLast

\* C26: the certificate viewer and the project modal each have the class
\* active exactly when aria-hidden is 'false' and exactly when the body's
\* overflow is 'hidden'; a keydown on a modal that is not active, Escape
\* included, leaves the modal as it is
C26_ModalStateConsistent ==
    /\ [](/\ certViewer.active <=> certViewer.ariaHidden = "false"
          /\ certViewer.active <=> certViewer.overflow = "hidden"
          /\ certViewer.ariaHidden \in {"true", "false"}
          /\ certViewer.overflow \in {"", "hidden"})
    /\ [](/\ projModal.active <=> projModal.ariaHidden = "false"
          /\ projModal.active <=> projModal.overflow = "hidden"
          /\ projModal.ariaHidden \in {"true", "false"}
          /\ projModal.overflow \in {"", "hidden"})
    /\ [][(certEvent' # certEvent /\ certEvent'.kind \in OtherKeys /\ ~certViewer.active)
             => certViewer' = certViewer]_vars
    /\ [][(projEvent' # projEvent /\ projEvent'.kind \in OtherKeys /\ ~projModal.active)
             => projModal' = projModal]_vars

\* Escape has closed the open viewer while the project modal is open
C26_Witness ==
    /\ certEvent.kind = "Escape"
    /\ certEvent.wasActive
    /\ ~certViewer.active
    /\ certViewer.overflow = ""
    /\ projModal.active
    /\ projModal.overflow = "hidden"

\* C29: once a filter button was clicked, the button clicked last is the only
\* active one, and a card is hidden exactly if that filter is not 'all' and
\* differs from the card's category, so that 'all' leaves no card hidden
C29_FilterShowsCategory ==
    filterEvent # "" =>
        /\ projects.activeBtns = {filterEvent}
        /\ \A c \in ProjectCards :
              c \in projects.hiddenCards <=>
                  (filterEvent # "all" /\ CardCategory[c] # filterEvent)
        /\ projects.hiddenCards \subseteq ProjectCards
        /\ filterEvent = "all" => projects.hiddenCards = {}

\* the filter 'fullstack' hides the two web cards
C29_Witness ==
    /\ filterEvent = "fullstack"
    /\ projects.hiddenCards = {"property-shodh", "portfolio"}
    /\ projects.activeBtns = {"fullstack"}


-----------------------------------------------------------------------------
\* C23: at most one submission of the contact form is in flight at any time;
\* while one is pending no further submit event, Ctrl+Enter in the message
\* field included, starts a second
C23_AtMostOneInFlight ==
    submissions <= 1

\* C24: a submit event on a form that validateForm rejects does not put the
\* button in its loading state (part_000 leaves the button alone; only
\* main.js's listener may disable it), starts no submission and leaves the
\* success panel hidden and the fields shown, and after it every field that
\* fails validateField has the class error and aria-invalid "true"
C24_InvalidSubmitRejected ==
    [][((SubmitClick \/ CtrlEnterInMessage) /\ ~validateForm(fieldValue)) =>
          /\ submitBtn'.loading = submitBtn.loading
          /\ submitBtn'.disabled # submitBtn.disabled =>
                (submitBtnClassed /\ mainIsValid(fieldValue))
          /\ submissions' = submissions
          /\ formSuccessHidden' /\ ~formFieldsHidden'
          /\ \A f \in Fields :
                ~validateField(f, fieldValue[f]) =>
                    (fieldMark'[f].error /\ fieldMark'[f].ariaInvalid = "true")]_vars

\* a submit was rejected with the name empty and the message too short: the
\* empty address, whose field never had the focus, was marked by validateForm,
\* and the focus is on the first field in error
C24_Witness ==
    /\ fieldValue = [name |-> "", email |-> "", message |-> "hi"]
    /\ fieldMark["email"].focusListener
    /\ fieldMark["email"].error /\ fieldMark["email"].ariaInvalid = "true"
    /\ fieldMark["email"].errorText = "Email is required"
    /\ fieldMark["message"].error /\ fieldMark["message"].ariaInvalid = "true"
    /\ fieldMark["message"].errorText =
          "Please provide a bit more detail (at least 10 characters)"
    /\ activeElement = FieldId("name")
    /\ announcements = 1
    /\ submissions = 0 /\ ~submitBtn.loading /\ formSuccessHidden

\* C25: a pending submission settles in one of two ways: when it succeeds
\* the fields are hidden and the success panel is shown; when it fails the
\* button leaves its loading state and is enabled, the fields are still shown
\* and the success panel is hidden
C25_SettlesOneOfTwoWays ==
    [][/\ SubmissionSettles(TRUE) => (formFieldsHidden' /\ ~formSuccessHidden')
       /\ SubmissionSettles(FALSE) =>
             /\ ~submitBtn'.loading /\ ~submitBtn'.disabled
             /\ ~formFieldsHidden' /\ formSuccessHidden']_vars

====
